---- MODULE Spec2Model ----
(***************************************************************************)
(* Model of the perception-and-safety core of neooriginal/ARCS:            *)
(*   - ObstacleDetector (src/obstacle_detection.py): blindness guard,      *)
(*     threshold comparison, safety history and permitted directions;      *)
(*   - the motion primitives and _interruptible_sleep                      *)
(*     (src/RoboCrew/src/robocrew/robots/XLeRobot/tools.py);               *)
(*   - the shared RobotState, its lock and the control routes              *)
(*     (src/state.py, src/routes.py, src/camera.py);                       *)
(*   - LidarScanner.analyze_gap (src/core/scanner.py);                     *)
(*   - the heading update of SimpleSLAM.process (src/RoboCrew/src/slam.py).*)
(* A frame is represented by what process() extracts from it: the total    *)
(* edge-pixel count and the three chunk scores.  Durations are in          *)
(* milliseconds (check_interval = 0.1 s = 100).                            *)
(***************************************************************************)
EXTENDS Integers, Sequences, FiniteSets, TLC

VARIABLES
    block_history,     \* ObstacleDetector.block_history (deque, maxlen history_len)
    latest_blockage,   \* ObstacleDetector.latest_blockage
    precision_mode,    \* state.precision_mode
    call,              \* the process() call in flight: position, frame, locals
    ret,               \* what the last finished process() call returned
    ai_enabled,        \* state.ai_enabled
    movement,          \* state.movement (MovementCommand)
    lock,              \* state.lock: "free" or the name of the holder
    latest_frame,      \* the frame source: None or the most recent frame
    sensing,           \* which of state.robot_system / the detector are set
    prim,              \* the motion primitive run by the agent thread
    ctl,               \* position of the control-route handler thread
    hazards,           \* number of non-clear frames supplied so far
    runs,              \* number of primitives started so far
    clear_run,         \* history: clear frames appended since the last FORWARD block
    seen,              \* history: sequence ids of the frames process() was run on
    stop_seen,         \* history: ai_enabled was false during the primitive in flight
    last_gap_center,   \* ObstacleDetector.last_gap_center (NoCenter for None)
    buffer,            \* LidarScanner.buffer: the (angle, distance) samples
    sweep,             \* the sweep feeding the scanner: next angle and step
    gap,               \* what analyze_gap() returned for the present buffer
    theta,             \* SimpleSLAM.theta, in microradians
    net,               \* history: sum of the heading deltas integrated so far
    updates,           \* number of SimpleSLAM.process calls so far
    wrapped,           \* history: a heading update crossed the +-pi seam
    self_x,            \* SimpleSLAM.x, in tenths of a millimetre
    self_y,            \* SimpleSLAM.y, in tenths of a millimetre
    cell,              \* grid_map at the robot's cell after the last update_map
    slamin,            \* history: inputs and old pose of the last process call, moves so far
    wheels,            \* the movement loop: its last wheel action, parity of its iterations
    thr,               \* threads inside ObstacleDetector.process: position, locals
    hlock,             \* ObstacleDetector.lock: "free" or the holding thread
    fgm                \* the last precision-guidance computation, and the calls so far

vars == <<block_history, latest_blockage, precision_mode, call, ret,
          ai_enabled, movement, lock, latest_frame, sensing, prim, ctl,
          hazards, runs, clear_run, seen, stop_seen, last_gap_center,
          buffer, sweep, gap, theta, net, updates, wrapped,
          self_x, self_y, cell, slamin, wheels, thr, hlock, fgm>>

engineVars == <<block_history, latest_blockage, call, ret, clear_run, seen,
                last_gap_center>>
motionVars == <<ai_enabled, movement, lock, latest_frame, prim, ctl, runs, stop_seen>>
scanVars == <<buffer, sweep, gap>>
slamVars == <<theta, net, updates, wrapped, self_x, self_y, cell, slamin>>
extVars == <<wheels, thr, hlock, fgm>>

-----------------------------------------------------------------------------
(* Bounds of the model *)

MaxHazardFrames == 1     \* non-clear frames supplied in one behaviour
MaxRuns == 1             \* primitives started in one behaviour
MaxTicks == 2            \* longest primitive, in ticks
MaxSeq == 2              \* frames captured by the camera thread
MaxLongTicks == 9        \* longest primitive run to completion, in ticks
MaxSamples == 12         \* samples accumulated in one sweep
MaxUpdates == 8          \* SimpleSLAM.process calls in one behaviour
MaxMoves == 1            \* SimpleSLAM.process calls that change the position
MaxPoseUpdates == 3      \* SimpleSLAM.process calls with the inputs kept
MaxMapUpdates == 1       \* SimpleSLAM.process calls on a given pose
MaxGuideCalls == 3       \* process() calls with precision guidance in one behaviour

-----------------------------------------------------------------------------
(* Program constants *)

min_edge_pixels == 200
history_len == 12
obstacle_threshold_y == 420
precision_relax == 30
side_margin == 50
precision_forward_limit == 460
check_interval == 100
image_center == 320
min_samples == 10
min_contrast == 50
min_gap_width == 10

alpha_tenths == 3
\* angles of SimpleSLAM are whole microradians; math.pi, 2 * math.pi and
\* math.pi / 2 are rounded towards zero, as the doubles are
Pi == 3141592
TwoPi == 6283185
HalfPi == 1570796
yaw_scale == 150          \* microradians per tenth of a pixel (0.0015 rad/px)
noise_floor == 1000       \* 0.001 rad
turn_rate == 150000       \* 0.15 rad per update

Directions == {"FORWARD", "LEFT", "RIGHT"}

AllStopped == [forward |-> FALSE, backward |-> FALSE, left |-> FALSE, right |-> FALSE]

-----------------------------------------------------------------------------
(* Frames: the values process() derives from a frame at lines 64-86 *)

EdgeCounts == {min_edge_pixels - 1, min_edge_pixels}
FwdScores == {obstacle_threshold_y, obstacle_threshold_y + 1,
              obstacle_threshold_y + precision_relax + 1,
              precision_forward_limit + 1}
SideScores == {obstacle_threshold_y + side_margin,
               obstacle_threshold_y + side_margin + 1}

Frames == [edges : EdgeCounts, c_left : SideScores, c_fwd : FwdScores,
           c_right : SideScores]

\* the centre column of the widest passable gap that guidance finds in a
\* frame's pseudo-scan (lines 303-340); NoCenter stands for "no gap"
GapCenters == {image_center, image_center + 1}

\* a frame that blocks nothing in any mode
ClearFrame(f) == /\ f.edges >= min_edge_pixels
                 /\ f.c_fwd <= obstacle_threshold_y
                 /\ f.c_left <= obstacle_threshold_y + side_margin
                 /\ f.c_right <= obstacle_threshold_y + side_margin

-----------------------------------------------------------------------------
(* ObstacleDetector: pure parts *)

IsBlindOffByOne(total_edge_pixels) == total_edge_pixels < min_edge_pixels - 1

\* process(), line 86
IsBlind(total_edge_pixels) == total_edge_pixels < min_edge_pixels

\* _determine_blocked_directions(): pm_thr is the value of state.precision_mode
\* read at line 170, pm_branch the value read at line 179
determine_blocked_directions(c_left, c_fwd, c_right, is_blind, pm_thr, pm_branch) ==
    LET threshold == IF pm_thr THEN obstacle_threshold_y + precision_relax
                     ELSE obstacle_threshold_y
        side_threshold == threshold + side_margin
    IN  IF is_blind THEN {"FORWARD"}
        ELSE IF pm_branch
             THEN IF c_fwd > precision_forward_limit THEN {"FORWARD"} ELSE {}
             ELSE (IF c_fwd > threshold THEN {"FORWARD"} ELSE {})
                  \cup (IF c_left > side_threshold THEN {"LEFT"} ELSE {})
                  \cup (IF c_right > side_threshold THEN {"RIGHT"} ELSE {})

DequeAppendShort(h, x) ==
    IF Len(h) >= history_len - 1 THEN Append(Tail(h), x) ELSE Append(h, x)

\* deque(maxlen=history_len).append, lines 33 and 198
DequeAppend(h, x) ==
    IF Len(h) >= history_len THEN Append(Tail(h), x) ELSE Append(h, x)

\* _update_safety_state(), lines 201-203
PersistentBlocked(h) == UNION {h[i] : i \in 1..Len(h)}

\* _update_safety_state(), lines 206-210
Blockage(persistent) ==
    [forward |-> "FORWARD" \in persistent,
     left |-> "LEFT" \in persistent,
     right |-> "RIGHT" \in persistent]

SafeActionsRightUnchecked(persistent, is_blind) ==
    IF is_blind THEN <<"BACKWARD">>
    ELSE <<"BACKWARD">>
         \o (IF "FORWARD" \in persistent THEN <<>> ELSE <<"FORWARD">>)
         \o (IF "LEFT" \in persistent THEN <<>> ELSE <<"LEFT">>)
         \o <<"RIGHT">>

SafeActionsStartsEmpty(persistent, is_blind) ==
    IF is_blind THEN <<>>
    ELSE (IF "FORWARD" \in persistent THEN <<>> ELSE <<"FORWARD">>)
         \o (IF "LEFT" \in persistent THEN <<>> ELSE <<"LEFT">>)
         \o (IF "RIGHT" \in persistent THEN <<>> ELSE <<"RIGHT">>)

\* _update_safety_state(), lines 212-241
SafeActions(persistent, is_blind) ==
    IF is_blind THEN <<"BACKWARD">>
    ELSE <<"BACKWARD">>
         \o (IF "FORWARD" \in persistent THEN <<>> ELSE <<"FORWARD">>)
         \o (IF "LEFT" \in persistent THEN <<>> ELSE <<"LEFT">>)
         \o (IF "RIGHT" \in persistent THEN <<>> ELSE <<"RIGHT">>)

Elems(s) == {s[i] : i \in 1..Len(s)}

-----------------------------------------------------------------------------
(* Initial state: after ObstacleDetector.__init__ and RobotState.__init__ *)

NullFrame == [edges |-> -1, c_left |-> 0, c_fwd |-> 0, c_right |-> 0, seq |-> 0]

WithSeq(f, n) == [edges |-> f.edges, c_left |-> f.c_left, c_fwd |-> f.c_fwd,
                  c_right |-> f.c_right, seq |-> n]

IdleCall == [pc |-> "idle", caller |-> "none", frame |-> NullFrame,
             pm_thr |-> FALSE, pm_branch |-> FALSE, pm_guid |-> FALSE,
             safe |-> <<>>]

NoReturn == [kind |-> "none", safe |-> <<>>, overlay |-> FALSE, edges |-> -1,
             guided |-> FALSE, has_metrics |-> FALSE]

\* last_gap_center = None, line 44
NoCenter == -1

\* add_reading(angle, None)
NoDistance == -1

\* no sweep has been started
NoSweep == [angle |-> 0, step |-> 0, active |-> FALSE]

\* analyze_gap() has not been called on the present buffer
NoResult == [found |-> FALSE, reason |-> "not_called", center_angle2 |-> 0,
             width_deg |-> 0, left_edge_angle |-> 0, right_edge_angle |-> 0]

\* grid_map values (slam.py lines 20-21, 216, 229): the initial gray, the
\* white of the filled field of view, the black of an obstacle stamp
unknown == 127
free == 255
occupied == 0

\* no SimpleSLAM.process call with a frame so far
NoInputs == [called |-> FALSE, vo_dist |-> 0, cmd_v |-> 0, dtheta |-> 0,
             cmd_w |-> 0, theta0 |-> 0, x0 |-> 0, y0 |-> 0,
             ray |-> [c |-> 0, obs_y |-> -1], moves |-> 0]

\* the threads that call process() on the one detector
Threads == {"t1", "t2"}

\* a thread outside process(): its locals instant_blocked, is_blind,
\* persistent_blocked and safe_actions, and (history) the window its
\* persistent_blocked was taken from
IdleThread == [pc |-> "idle", instant_blocked |-> {}, is_blind |-> FALSE,
               persistent_blocked |-> {}, window |-> <<>>, safe_actions |-> <<>>]

\* no process() call with guidance so far
NoGuidance == [calls |-> 0, guided |-> FALSE, scene |-> {}, c_fwd |-> 0,
               before |-> -1, chosen_before |-> -1, gaps |-> {},
               best |-> <<0, 0>>, raw |-> -1, smoothed |-> -1, msg |-> "",
               chosen |-> -1]

IdlePrim == [pc |-> "idle", kind |-> "none", duration |-> 0, elapsed |-> 0,
             completed |-> FALSE, result |-> "none"]

InitRest ==
    /\ block_history = <<>>
    /\ latest_blockage = [forward |-> FALSE, left |-> FALSE, right |-> FALSE]
    /\ precision_mode = FALSE
    /\ call = IdleCall
    /\ ret = NoReturn
    /\ ai_enabled = FALSE
    /\ movement = AllStopped
    /\ lock = "free"
    /\ latest_frame = NullFrame
    /\ prim = IdlePrim
    /\ ctl = "idle"
    /\ hazards = 0
    /\ runs = 0
    /\ clear_run = history_len
    /\ seen = {}
    /\ stop_seen = FALSE
    /\ last_gap_center = NoCenter
    /\ sweep = NoSweep
    /\ gap = NoResult
    /\ net = 0
    /\ updates = 0
    /\ wrapped = FALSE
    /\ cell = unknown
    /\ slamin = NoInputs
    /\ wheels = [action |-> "stop", turn |-> 0]
    /\ thr = [t \in Threads |-> IdleThread]
    /\ hlock = "free"
    /\ fgm = NoGuidance

\* SimpleSLAM.__init__, lines 25-27: at the origin, pointing up
InitCommon == InitRest /\ self_x = 0 /\ self_y = 0 /\ theta = -HalfPi

Init == InitCommon /\ sensing = "ok" /\ buffer = <<>>

InitMotion ==
    InitCommon /\ sensing \in {"ok", "no_system", "no_detector"} /\ buffer = <<>>

-----------------------------------------------------------------------------
(* ObstacleDetector.process, as the steps between its reads of shared state *)

ProcessNullResets ==
    /\ ret' = [kind |-> "null", safe |-> <<"STOP">>, overlay |-> FALSE,
               edges |-> -1, guided |-> FALSE, has_metrics |-> FALSE]
    /\ block_history' = <<>>
    /\ latest_blockage' = Blockage({})
    /\ last_gap_center' = NoCenter
    /\ UNCHANGED <<call, clear_run, seen>>

\* process(None), lines 60-61
ProcessNull ==
    /\ ret' = [kind |-> "null", safe |-> <<"STOP">>, overlay |-> FALSE,
               edges |-> -1, guided |-> FALSE, has_metrics |-> FALSE]
    /\ UNCHANGED <<block_history, latest_blockage, call, clear_run, seen,
                   last_gap_center>>

\* process(frame), lines 63-87 and the first read of state.precision_mode
\* (lines 169-172)
ProcBegin(f, who) ==
    /\ call' = [pc |-> "decide", caller |-> who, frame |-> f,
                pm_thr |-> precision_mode, pm_branch |-> FALSE,
                pm_guid |-> FALSE, safe |-> <<>>]
    /\ UNCHANGED <<block_history, latest_blockage, ret, clear_run, seen,
                   last_gap_center>>

\* lines 174-190 (second read of state.precision_mode) and
\* _update_safety_state, lines 192-241
ProcDecide ==
    /\ call.pc = "decide"
    /\ LET is_blind == IsBlind(call.frame.edges)
           instant_blocked == determine_blocked_directions(
               call.frame.c_left, call.frame.c_fwd, call.frame.c_right,
               is_blind, call.pm_thr, precision_mode)
           h == DequeAppend(block_history, instant_blocked)
           persistent_blocked == PersistentBlocked(h)
       IN  /\ block_history' = h
           /\ latest_blockage' = Blockage(persistent_blocked)
           /\ call' = [call EXCEPT !.pc = "guide", !.pm_branch = precision_mode,
                                   !.safe = SafeActions(persistent_blocked, is_blind)]
           /\ clear_run' = IF "FORWARD" \in instant_blocked THEN 0
                           ELSE IF clear_run < history_len THEN clear_run + 1
                           ELSE clear_run
           /\ seen' = IF call.frame.seq > 0 THEN seen \cup {call.frame.seq} ELSE seen
    /\ UNCHANGED <<ret, last_gap_center, precision_mode, sensing, extVars, scanVars,
                   slamVars, hazards, runs>>
    /\ UNCHANGED motionVars

\* the remembered centres 0..639 for which, with the given raw centre, the
\* double-precision value of 0.3 * raw + 0.7 * last (line 347) lies just
\* below the whole number (3 raw + 7 last) / 10, so that int() gives one
\* less; tabulated for the raw centres the frames of this model produce
EmaFallsShort(raw_gap_center) ==
    CASE raw_gap_center = 79 ->
           {189, 199, 209, 219, 229, 239, 249, 259, 269, 279, 289, 299,
            309, 319, 329, 389, 399, 409, 419, 429, 439, 449, 459, 469,
            479, 489, 499, 509, 519, 529, 539, 549, 559, 569, 579, 589,
            599, 609, 619, 629, 639}
      [] raw_gap_center = 119 ->
           {9, 19, 29, 39, 189, 199, 209, 219, 229, 239, 249, 259, 269,
            279, 289, 299, 309, 389, 399, 409, 419, 429, 439, 449, 459,
            469, 479, 489, 499, 509, 519, 529, 539, 549, 559, 569, 579,
            589, 599, 609, 619, 629, 639}
      [] raw_gap_center = 124 ->
           {4, 14, 24, 34, 184, 194, 204, 214, 224, 234, 244, 254, 264,
            274, 284, 294, 304, 384, 394, 404, 414, 424, 434, 444, 454,
            464, 474, 484, 494, 504, 514, 524, 534, 544, 554, 564, 574,
            584, 594, 604, 614, 624, 634}
      [] raw_gap_center = 199 ->
           {189, 199, 209, 219, 229, 239, 249, 259, 269, 279, 389, 399,
            409, 419, 429, 439, 449, 459, 469, 479, 489, 499, 509, 519,
            529, 539, 549, 559, 569, 579, 589, 599, 609, 619, 629, 639}
      [] raw_gap_center = 250 ->
           {}
      [] raw_gap_center = 319 ->
           {389, 399, 409, 419, 429, 439, 449, 459, 469, 479, 489, 499,
            509, 519, 529, 539, 549, 559, 569, 579, 589}
      [] raw_gap_center = 320 ->
           {}
      [] raw_gap_center = 321 ->
           {}
      [] raw_gap_center = 489 ->
           {389, 399, 409, 419, 429, 439, 449, 459, 469, 479, 489, 499,
            509, 519}
      [] raw_gap_center = 490 ->
           {}
      [] raw_gap_center = 494 ->
           {384, 394, 404, 414, 424, 434, 444, 454, 464, 474, 484, 494,
            504, 514}
      [] raw_gap_center = 499 ->
           {389, 399, 409, 419, 429, 439, 449, 459, 469, 479, 489, 499, 509}
      [] raw_gap_center = 514 ->
           {384, 394, 404, 414, 424, 434, 444, 454, 464, 474, 484, 494, 504}
      [] raw_gap_center = 627 ->
           {}

\* _compute_precision_guidance, lines 342-348: the EMA of the gap centre
SmoothedCenter(raw_gap_center, last) ==
    LET l == IF last = NoCenter THEN raw_gap_center ELSE last
        exact == (alpha_tenths * raw_gap_center + (10 - alpha_tenths) * l) \div 10
    IN  IF l \in EmaFallsShort(raw_gap_center) THEN exact - 1 ELSE exact

\* lines 92-123: third read of state.precision_mode, guidance, return
ProcFinish ==
    /\ call.pc = "guide"
    /\ call' = [call EXCEPT !.pc = "idle", !.pm_guid = precision_mode]
    /\ ret' = [kind |-> "frame", safe |-> call.safe, overlay |-> TRUE,
               edges |-> call.frame.edges, guided |-> precision_mode,
               has_metrics |-> TRUE]
    /\ IF precision_mode
       THEN \E raw \in GapCenters \cup {NoCenter} :
                last_gap_center' = IF raw = NoCenter THEN last_gap_center
                                   ELSE SmoothedCenter(raw, last_gap_center)
       ELSE UNCHANGED last_gap_center
    /\ prim' = IF call.caller = "prim" THEN [prim EXCEPT !.pc = "verdict"] ELSE prim
    /\ UNCHANGED <<block_history, latest_blockage, clear_run, seen, precision_mode,
                   sensing, extVars, scanVars, slamVars, hazards, runs>>
    /\ UNCHANGED <<ai_enabled, movement, lock, latest_frame, ctl, stop_seen>>

\* a caller that hands process() a frame of its own (or None)
ClientProcess ==
    /\ call.pc = "idle"
    /\ prim.pc = "idle"
    /\ \E f \in Frames \cup {NullFrame} :
         IF f = NullFrame
         THEN ProcessNull /\ UNCHANGED hazards
         ELSE /\ ClearFrame(f) \/ hazards < MaxHazardFrames
              /\ hazards' = IF ClearFrame(f) THEN hazards ELSE hazards + 1
              /\ ProcBegin(WithSeq(f, 0), "client")
    /\ UNCHANGED <<precision_mode, sensing, extVars, scanVars, slamVars, runs>>
    /\ UNCHANGED motionVars

\* the mode/control surface toggles precision mode
TogglePrecision ==
    /\ precision_mode' = ~precision_mode
    /\ UNCHANGED <<sensing, extVars, scanVars, slamVars, hazards, runs>>
    /\ UNCHANGED engineVars
    /\ UNCHANGED motionVars

NextEngine == ClientProcess \/ ProcDecide \/ ProcFinish \/ TogglePrecision

SpecEngine == Init /\ [][NextEngine]_vars

-----------------------------------------------------------------------------
(* Motion primitives: move_forward, move_backward, turn_left, turn_right   *)
(* and _interruptible_sleep                                                *)

Kinds == {"FORWARD", "BACKWARD", "LEFT", "RIGHT"}

\* durations in milliseconds, whole and half ticks up to MaxTicks ticks
Durations == {d \in 0..(MaxTicks * check_interval) : d % (check_interval \div 2) = 0}

\* the MovementCommand a primitive writes before its polling loop
\* (tools.py lines 77, 96, 115, 134)
Command(kind) ==
    [forward |-> kind = "FORWARD", backward |-> kind = "BACKWARD",
     left |-> kind = "LEFT", right |-> kind = "RIGHT"]

ChecksSafetyAlways(kind) == TRUE

\* the call sites of _interruptible_sleep: only move_forward passes
\* check_safety=True, movement_type='FORWARD' (lines 79, 97, 116, 135)
ChecksSafety(kind) == kind = "FORWARD"

\* durations up to MaxLongTicks ticks, for runs to completion
LongDurations ==
    {d \in 0..(MaxLongTicks * check_interval) : d % (check_interval \div 2) = 0}

\* the numbers k of ticks, up to 46, after which the binary floating-point sum
\* of k additions of check_interval = 0.1 to elapsed = 0 (line 65) is below the
\* double nearest to k/10: 0.1 added 8 times gives 0.7999999999999999
SumFallsShort == {8, 9, 10, 11}

\* the loop test "elapsed < duration" of line 37 on the floating-point values:
\* elapsed is the accumulated sum after elapsed/check_interval ticks, duration
\* the double nearest to the stated number of milliseconds
ElapsedLess(elapsed, duration) ==
    \/ elapsed < duration
    \/ (elapsed = duration /\ (elapsed \div check_interval) \in SumFallsShort)

\* tools.py lines 73-79: the primitive writes its command and enters the loop
StartWith(durations, max_runs) ==
    /\ prim.pc = "idle"
    /\ call.pc = "idle"
    /\ runs < max_runs
    /\ \E kind \in Kinds, d \in durations :
         /\ movement' = Command(kind)
         /\ prim' = [pc |-> "loop", kind |-> kind, duration |-> d, elapsed |-> 0,
                     completed |-> FALSE, result |-> "none"]
    /\ runs' = runs + 1
    /\ stop_seen' = FALSE
    /\ UNCHANGED <<ai_enabled, lock, latest_frame, ctl, precision_mode, sensing, extVars,
                   scanVars, slamVars, hazards>>
    /\ UNCHANGED engineVars

StartPrimitive == StartWith(Durations, MaxRuns)

\* one call of one primitive, followed to its return
SingleRun == 1

StartLongPrimitive == StartWith(LongDurations, SingleRun)

PrimLoopIgnoresStop ==
    /\ prim.pc = "loop"
    /\ prim' = IF ~ElapsedLess(prim.elapsed, prim.duration)
               THEN [prim EXCEPT !.pc = "exit", !.completed = TRUE]
               ELSE IF ChecksSafety(prim.kind)
               THEN [prim EXCEPT !.pc = "safety"]
               ELSE [prim EXCEPT !.pc = "sleep"]
    /\ UNCHANGED <<ai_enabled, movement, lock, latest_frame, ctl, runs, stop_seen,
                   precision_mode, sensing, extVars, scanVars, slamVars, hazards>>
    /\ UNCHANGED engineVars

\* _interruptible_sleep lines 37-38 and 44-47: the loop test and the tick's
\* read of ai_enabled
PrimLoop ==
    /\ prim.pc = "loop"
    /\ prim' = IF ~ElapsedLess(prim.elapsed, prim.duration)
               THEN [prim EXCEPT !.pc = "exit", !.completed = TRUE]
               ELSE IF ~ai_enabled
               THEN [prim EXCEPT !.pc = "brake"]
               ELSE IF ChecksSafety(prim.kind)
               THEN [prim EXCEPT !.pc = "safety"]
               ELSE [prim EXCEPT !.pc = "sleep"]
    /\ UNCHANGED <<ai_enabled, movement, lock, latest_frame, ctl, runs, stop_seen,
                   precision_mode, sensing, extVars, scanVars, slamVars, hazards>>
    /\ UNCHANGED engineVars

\* lines 39-41: emergency stop seen, clear the command and return False
PrimBrake ==
    /\ prim.pc = "brake"
    /\ movement' = AllStopped
    /\ prim' = [prim EXCEPT !.pc = "exit", !.completed = FALSE]
    /\ UNCHANGED <<ai_enabled, lock, latest_frame, ctl, runs, stop_seen,
                   precision_mode, sensing, extVars, scanVars, slamVars, hazards>>
    /\ UNCHANGED engineVars

\* lines 47-55: robot_system, get_frame(), get_detector(), then process(frame)
PrimSafety ==
    /\ prim.pc = "safety"
    /\ IF sensing = "ok" /\ latest_frame # NullFrame
       THEN /\ ProcBegin(latest_frame, "prim")
            /\ prim' = [prim EXCEPT !.pc = "query"]
       ELSE /\ prim' = [prim EXCEPT !.pc = "sleep"]
            /\ UNCHANGED engineVars
    /\ UNCHANGED <<ai_enabled, movement, lock, latest_frame, ctl, runs, stop_seen,
                   precision_mode, sensing, extVars, scanVars, slamVars, hazards>>

PrimSafetyRaisesHalts ==
    /\ prim.pc = "safety"
    /\ sensing = "ok"
    /\ latest_frame # NullFrame
    /\ movement' = AllStopped
    /\ prim' = [prim EXCEPT !.pc = "exit", !.completed = FALSE]
    /\ UNCHANGED <<ai_enabled, lock, latest_frame, ctl, runs, stop_seen,
                   precision_mode, sensing, extVars, scanVars, slamVars, hazards>>
    /\ UNCHANGED engineVars

\* lines 48 and 61-62: the query raises, the exception is printed and dropped
PrimSafetyRaises ==
    /\ prim.pc = "safety"
    /\ sensing = "ok"
    /\ latest_frame # NullFrame
    /\ prim' = [prim EXCEPT !.pc = "sleep"]
    /\ UNCHANGED <<ai_enabled, movement, lock, latest_frame, ctl, runs, stop_seen,
                   precision_mode, sensing, extVars, scanVars, slamVars, hazards>>
    /\ UNCHANGED engineVars

\* lines 55 and 61-62: process(frame) raises after _update_safety_state (in
\* guidance or in the blend, lines 92-113); what it has written to the detector
\* stays, its locals are gone, the exception is printed and dropped
PrimQueryRaises ==
    /\ prim.pc = "query"
    /\ call.pc = "guide"
    /\ call' = [IdleCall EXCEPT !.caller = "prim"]
    /\ prim' = [prim EXCEPT !.pc = "sleep"]
    /\ UNCHANGED <<block_history, latest_blockage, ret, clear_run, seen,
                   last_gap_center>>
    /\ UNCHANGED <<ai_enabled, movement, lock, latest_frame, ctl, runs, stop_seen,
                   precision_mode, sensing, extVars, scanVars, slamVars, hazards>>

\* lines 56-60: the permitted list decides between braking and sleeping
PrimVerdict ==
    /\ prim.pc = "verdict"
    /\ IF "FORWARD" \notin Elems(call.safe)
       THEN /\ movement' = AllStopped
            /\ prim' = [prim EXCEPT !.pc = "exit", !.completed = FALSE]
       ELSE /\ prim' = [prim EXCEPT !.pc = "sleep"]
            /\ UNCHANGED movement
    /\ UNCHANGED <<ai_enabled, lock, latest_frame, ctl, runs, stop_seen,
                   precision_mode, sensing, extVars, scanVars, slamVars, hazards>>
    /\ UNCHANGED engineVars

\* lines 64-65: one tick of sleep
PrimSleep ==
    /\ prim.pc = "sleep"
    /\ prim' = [prim EXCEPT !.pc = "loop", !.elapsed = prim.elapsed + check_interval]
    /\ UNCHANGED <<ai_enabled, movement, lock, latest_frame, ctl, runs, stop_seen,
                   precision_mode, sensing, extVars, scanVars, slamVars, hazards>>
    /\ UNCHANGED engineVars

\* tools.py lines 80-84: back in the primitive, clear the command and report
PrimExit ==
    /\ prim.pc = "exit"
    /\ movement' = AllStopped
    /\ prim' = [prim EXCEPT !.pc = "idle",
                            !.result = IF prim.completed THEN "completed"
                                       ELSE "interrupted"]
    /\ UNCHANGED <<ai_enabled, lock, latest_frame, ctl, runs, stop_seen,
                   precision_mode, sensing, extVars, scanVars, slamVars, hazards>>
    /\ UNCHANGED engineVars

\* the primitive is inside a tick of the polling loop of _interruptible_sleep,
\* or between two ticks
Polling == \/ prim.pc \in {"safety", "query", "verdict", "sleep"}
           \/ (prim.pc = "loop" /\ prim.elapsed > 0)

-----------------------------------------------------------------------------
(* Control routes (routes.py), RobotState (state.py), camera thread        *)

\* /ai/start, lines 237-243
AiStart ==
    /\ ctl = "idle"
    /\ ai_enabled' = TRUE
    /\ UNCHANGED <<movement, lock, latest_frame, prim, ctl, runs, stop_seen,
                   precision_mode, sensing, extVars, scanVars, slamVars, hazards>>
    /\ UNCHANGED engineVars

\* /ai/stop, lines 245-249
AiStop ==
    /\ ctl = "idle"
    /\ ai_enabled' = FALSE
    /\ stop_seen' = (stop_seen \/ (Polling /\ ai_enabled))
    /\ UNCHANGED <<movement, lock, latest_frame, prim, ctl, runs,
                   precision_mode, sensing, extVars, scanVars, slamVars, hazards>>
    /\ UNCHANGED engineVars

\* /emergency_stop, line 272
EmergencyStopFlag ==
    /\ ctl = "idle"
    /\ ai_enabled' = FALSE
    /\ stop_seen' = (stop_seen \/ (Polling /\ ai_enabled))
    /\ ctl' = "estop"
    /\ UNCHANGED <<movement, lock, latest_frame, prim, runs,
                   precision_mode, sensing, extVars, scanVars, slamVars, hazards>>
    /\ UNCHANGED engineVars

\* /emergency_stop, line 273: stop_all_movement() takes the lock (state.py 45)
EmergencyStopAcquire ==
    /\ ctl = "estop"
    /\ lock = "free"
    /\ lock' = "ctl"
    /\ ctl' = "estop_locked"
    /\ UNCHANGED <<ai_enabled, movement, latest_frame, prim, runs, stop_seen,
                   precision_mode, sensing, extVars, scanVars, slamVars, hazards>>
    /\ UNCHANGED engineVars

\* state.py lines 46-51, then routes.py 274-277
EmergencyStopClear ==
    /\ ctl = "estop_locked"
    /\ movement' = AllStopped
    /\ lock' = "free"
    /\ ctl' = "idle"
    /\ UNCHANGED <<ai_enabled, latest_frame, prim, runs, stop_seen,
                   precision_mode, sensing, extVars, scanVars, slamVars, hazards>>
    /\ UNCHANGED engineVars

\* /move, line 82: update_movement() takes the lock (state.py 30)
MoveAcquire ==
    /\ ctl = "idle"
    /\ lock = "free"
    /\ lock' = "ctl"
    /\ ctl' = "move_locked"
    /\ UNCHANGED <<ai_enabled, movement, latest_frame, prim, runs, stop_seen,
                   precision_mode, sensing, extVars, scanVars, slamVars, hazards>>
    /\ UNCHANGED engineVars

\* state.py lines 31-36, then routes.py 84-87
MoveWrite ==
    /\ ctl = "move_locked"
    /\ \E kind \in Kinds \cup {"none"} : movement' = Command(kind)
    /\ lock' = "free"
    /\ ctl' = "idle"
    /\ UNCHANGED <<ai_enabled, latest_frame, prim, runs, stop_seen,
                   precision_mode, sensing, extVars, scanVars, slamVars, hazards>>
    /\ UNCHANGED engineVars

\* the frames the camera thread delivers: an obstacle ahead at each distance,
\* or a featureless view; the side chunks clear
CameraFrames == {f \in Frames : /\ f.c_left = obstacle_threshold_y + side_margin
                                /\ f.c_right = obstacle_threshold_y + side_margin
                                /\ IsBlind(f.edges) => f.c_fwd = obstacle_threshold_y}

\* camera.py lines 56-58: the capture thread stores the latest frame
Capture ==
    /\ latest_frame.seq < MaxSeq
    /\ \E f \in CameraFrames : latest_frame' = WithSeq(f, latest_frame.seq + 1)
    /\ UNCHANGED <<ai_enabled, movement, lock, prim, ctl, runs, stop_seen,
                   precision_mode, sensing, extVars, scanVars, slamVars, hazards>>
    /\ UNCHANGED engineVars

Next ==
    \/ StartPrimitive \/ PrimLoop \/ PrimBrake \/ PrimSafety \/ PrimSafetyRaises
    \/ PrimVerdict \/ PrimSleep \/ PrimExit
    \/ ProcDecide \/ ProcFinish
    \/ AiStart \/ AiStop
    \/ EmergencyStopFlag \/ EmergencyStopAcquire \/ EmergencyStopClear
    \/ MoveAcquire \/ MoveWrite
    \/ Capture

Spec == InitMotion /\ [][Next]_vars

\* one primitive run to its return, with the faults of the safety query, the
\* camera thread and the AI switch, without the manual control routes
NextRun ==
    \/ StartLongPrimitive \/ PrimLoop \/ PrimBrake \/ PrimSafety \/ PrimSafetyRaises
    \/ PrimQueryRaises \/ PrimVerdict \/ PrimSleep \/ PrimExit
    \/ ProcDecide \/ ProcFinish
    \/ AiStart \/ AiStop
    \/ Capture

SpecRun == Init /\ [][NextRun]_vars

-----------------------------------------------------------------------------
(* LidarScanner (src/core/scanner.py).  Angles are whole degrees, distances  *)
(* whole centimetres.  The smoothed distances are carried times 3 and the    *)
(* percentiles times 15, so that every value analyze_gap compares is an      *)
(* integer and every comparison is exact.                                    *)

\* the distances the sensor reports: a wall and an opening behind it
Distances == {90, 240}

\* the angle between two readings of a sweep: right to left, in place, left
\* to right
Steps == {-5, 0, 2}

Sample(angle, distance) == [angle |-> angle, dist |-> distance]

\* sorted(self.buffer, key=lambda x: x[0]), line 43: a stable sort by angle
RECURSIVE InsertByAngle(_, _)
InsertByAngle(s, x) ==
    IF s = <<>> THEN <<x>>
    ELSE IF s[Len(s)].angle <= x.angle THEN Append(s, x)
    ELSE Append(InsertByAngle(SubSeq(s, 1, Len(s) - 1), x), s[Len(s)])

RECURSIVE SortedByAngle(_)
SortedByAngle(b) ==
    IF b = <<>> THEN <<>>
    ELSE InsertByAngle(SortedByAngle(SubSeq(b, 1, Len(b) - 1)), b[Len(b)])

\* np.convolve(dists, np.ones(3)/3, mode='same'), line 47, times 3: the
\* window is padded with zeros at both ends
Smooth3(dists) ==
    [i \in 1..Len(dists) |->
        (IF i > 1 THEN dists[i - 1] ELSE 0) + dists[i]
        + (IF i < Len(dists) THEN dists[i + 1] ELSE 0)]

RECURSIVE InsertValue(_, _)
InsertValue(s, x) ==
    IF s = <<>> THEN <<x>>
    ELSE IF s[Len(s)] <= x THEN Append(s, x)
    ELSE Append(InsertValue(SubSeq(s, 1, Len(s) - 1), x), s[Len(s)])

RECURSIVE SortedValues(_)
SortedValues(x) ==
    IF x = <<>> THEN <<>>
    ELSE InsertValue(SortedValues(SubSeq(x, 1, Len(x) - 1)), x[Len(x)])

\* np.percentile(x, q), lines 50-51, times 5, for q a multiple of 20: linear
\* interpolation at position q/100 * (n - 1) of the sorted values
Percentile5(x, q) ==
    LET s == SortedValues(x)
        n == Len(x)
        pos == q * (n - 1)
        lo == pos \div 100 + 1
        hi == IF lo < n THEN lo + 1 ELSE n
        fifths == (pos % 100) \div 20
    IN  5 * s[lo] + fifths * (s[hi] - s[lo])

\* line 39
TooFew(n) == n < min_samples

LowContrastAtFifty(p20, p80) == p80 - p20 <= 15 * min_contrast

\* line 53, on the percentiles times 15
LowContrast(p20, p80) == p80 - p20 < 15 * min_contrast

\* lines 56-57: dists_smooth > (p20 + p80) / 2, on the values times 30
IsGap(smooth3, p20, p80) ==
    [i \in 1..Len(smooth3) |-> 10 * smooth3[i] > p20 + p80]

RECURSIVE Ascending(_)
Ascending(S) ==
    IF S = {} THEN <<>>
    ELSE LET m == CHOOSE x \in S : \A y \in S : x <= y
         IN  <<m>> \o Ascending(S \ {m})

\* lines 60-67 and the zip of line 75: the segments of consecutive gap
\* samples, left to right, each as <<first index, last index>>
Segments(is_gap) ==
    LET n == Len(is_gap)
        starts == Ascending({i \in 1..n : is_gap[i] /\ (i = 1 \/ ~is_gap[i - 1])})
        ends == Ascending({i \in 1..n : is_gap[i] /\ (i = n \/ ~is_gap[i + 1])})
    IN  [k \in 1..Len(starts) |-> <<starts[k], ends[k]>>]

\* best_segment = None, line 72
NoSegment == <<0, 0>>

RECURSIVE PickLast(_, _, _, _, _)
PickLast(angles, segs, k, best_segment, max_len) ==
    IF k > Len(segs) THEN best_segment
    ELSE PickLast(angles, segs, k + 1, segs[k], max_len)

\* the loop of lines 72-80: the first segment of the largest angular width,
\* if that width is positive
RECURSIVE PickWidest(_, _, _, _, _)
PickWidest(angles, segs, k, best_segment, max_len) ==
    IF k > Len(segs) THEN best_segment
    ELSE LET width_deg == angles[segs[k][2]] - angles[segs[k][1]]
         IN  IF width_deg > max_len
             THEN PickWidest(angles, segs, k + 1, segs[k], width_deg)
             ELSE PickWidest(angles, segs, k + 1, best_segment, max_len)

\* line 94
TooNarrow(width_deg) == width_deg < min_gap_width

NotFound(reason) ==
    [found |-> FALSE, reason |-> reason, center_angle2 |-> 0, width_deg |-> 0,
     left_edge_angle |-> 0, right_edge_angle |-> 0]

\* analyze_gap(), lines 24-108; center_angle2 is twice center_angle
analyze_gap(buf) ==
    IF TooFew(Len(buf)) THEN NotFound("insufficient_data")
    ELSE
    LET data == SortedByAngle(buf)
        angles == [i \in 1..Len(data) |-> data[i].angle]
        dists == [i \in 1..Len(data) |-> data[i].dist]
        dists_smooth == Smooth3(dists)
        p20 == Percentile5(dists_smooth, 20)
        p80 == Percentile5(dists_smooth, 80)
    IN  IF LowContrast(p20, p80) THEN NotFound("no_depth_contrast")
        ELSE
        LET segs == Segments(IsGap(dists_smooth, p20, p80))
        IN  IF Len(segs) = 0 THEN NotFound("no_gap_segments")
            ELSE
            LET best_segment == PickWidest(angles, segs, 1, NoSegment, 0)
            IN  IF best_segment = NoSegment THEN NotFound("unknown_error")
                ELSE
                LET left_angle == angles[best_segment[1]]
                    right_angle == angles[best_segment[2]]
                    width_deg == right_angle - left_angle
                IN  IF TooNarrow(width_deg)
                    THEN [NotFound("gap_too_narrow") EXCEPT !.width_deg = width_deg]
                    ELSE [found |-> TRUE, reason |-> "none",
                          center_angle2 |-> left_angle + right_angle,
                          width_deg |-> width_deg,
                          left_edge_angle |-> left_angle,
                          right_edge_angle |-> right_angle]

\* a new sweep: clear(), lines 17-18, and the caller's choice of direction
Clear ==
    /\ buffer' = <<>>
    /\ gap' = NoResult
    /\ \E st \in Steps : sweep' = [angle |-> 0, step |-> st, active |-> TRUE]
    /\ UNCHANGED <<precision_mode, sensing, extVars, hazards, slamVars>>
    /\ UNCHANGED engineVars
    /\ UNCHANGED motionVars

\* add_reading(angle, distance), lines 20-22: a reading without a distance is
\* dropped, and the sweep takes it again at the same angle
AddReading ==
    /\ sweep.active
    /\ Len(buffer) < MaxSamples
    /\ \E distance \in Distances \cup {NoDistance} :
         IF distance = NoDistance
         THEN UNCHANGED <<buffer, sweep, gap>>
         ELSE /\ buffer' = Append(buffer, Sample(sweep.angle, distance))
              /\ sweep' = [sweep EXCEPT !.angle = sweep.angle + sweep.step]
              /\ gap' = NoResult
    /\ UNCHANGED <<precision_mode, sensing, extVars, hazards, slamVars>>
    /\ UNCHANGED engineVars
    /\ UNCHANGED motionVars

\* a call of analyze_gap() on the buffer as it stands
AnalyzeGap ==
    /\ gap' = analyze_gap(buffer)
    /\ UNCHANGED <<buffer, sweep, precision_mode, sensing, extVars, hazards, slamVars>>
    /\ UNCHANGED engineVars
    /\ UNCHANGED motionVars

NextScan == Clear \/ AddReading \/ AnalyzeGap

SpecScan == Init /\ [][NextScan]_vars

\* a finished sweep over the angles 0..40, one sample per degree, that saw
\* two openings: one over the angles a..b, one over c..d
Profile(a, b, c, d, near, far) ==
    [i \in 1..41 |->
        Sample(i - 1, IF (a <= i - 1 /\ i - 1 <= b) \/ (c <= i - 1 /\ i - 1 <= d)
                      THEN far ELSE near)]

Profiles ==
    {Profile(a, b, 35, d, near, far) :
        a \in {8, 10, 12}, b \in {28, 30, 32}, d \in {37, 38},
        near \in {90, 100}, far \in {200, 240, 300}}

InitProfile == InitCommon /\ sensing = "ok" /\ buffer \in Profiles

SpecProfile == InitProfile /\ [][AnalyzeGap]_vars

-----------------------------------------------------------------------------
(* SimpleSLAM.process (src/RoboCrew/src/slam.py): the heading update *)

\* img_tx of the affine estimate, in tenths of a pixel; 0 also stands for "no
\* estimate" (dtheta keeps its initial 0, line 70)
TxTenths == {0, 6, -7, 4000, -4000}

\* the movement_cmd argument: None, or the flags of a MovementCommand
SlamCommands ==
    {AllStopped, Command("FORWARD"), Command("LEFT"), Command("RIGHT"),
     [forward |-> FALSE, backward |-> FALSE, left |-> TRUE, right |-> TRUE]}

Abs(n) == IF n < 0 THEN -n ELSE n

NormalizeToTurn(t) == t % TwoPi

NormalizeClamped(t) == IF t > Pi THEN Pi ELSE IF t < -Pi THEN -Pi ELSE t

\* math.atan2(math.sin(theta), math.cos(theta)), line 138: the angle
\* congruent to theta modulo a full turn that lies between -pi and pi.  No
\* whole number of microradians is pi itself, so both ends of the range
\* -Pi..Pi are inside the open interval (-pi, pi).
Normalize(t) == ((t + Pi) % TwoPi) - Pi

\* lengths are in tenths of a millimetre: the commanded step of 0.1 m (lines
\* 119-120), 0.001 m per pixel of img_ty (line 104), here per tenth of a
\* pixel ten times less, and the floor of 0.001 m under which the visual
\* distance is ignored (line 141)
cmd_speed == 1000
trans_scale == 1
dist_floor == 10

\* the grid: metres per cell, cells per side, the cell of the origin (line 11,
\* 16-18)
map_resolution == 500
map_size == 800
map_center == 400

\* update_map: width and height of the resized frame (line 161), the step of
\* the column loop (line 178), the rows under the horizon that are ignored
\* (line 195), the calibration constant K = 15 m (line 198), the ranges 3.0 m
\* (line 192) and 2.5 m (line 215), the radius of an obstacle stamp (line 229)
small_w == 160
small_h == 120
ray_step == 2
horizon_margin == 5
K == 150000
max_range == 30000
stamp_range == 25000
stamp_radius == 2
\* math.radians(60) / w (line 189), in microradians per column
ray_angle_step == 6545

\* img_ty of the affine estimate, in tenths of a pixel; 0 also stands for "no
\* estimate" (vo_dist keeps its initial 0.0, line 71)
TyTenths == {0, 8, 600, -400}

\* the commands with a linear part
MoveCommands == {Command("FORWARD"), Command("BACKWARD")}

\* cos of an angle of 0..pi/2 given in microradians, in units of 1/10000, by
\* the series 1 - x^2/2 + x^4/24 - x^6/720 + x^8/40320 (within 3 units)
CosQ(t) ==
    LET a == t \div 100
        x2 == (a * a) \div 10000
        t2 == (x2 * x2) \div 240000
        t3 == (t2 * x2) \div 300000
        t4 == (t3 * x2) \div 560000
    IN  10000 - (x2 \div 2) + t2 - t3 + t4

\* math.cos and math.sin (lines 148-149, 207-208) of an angle in -Pi..Pi
Cos(t) == IF Abs(t) <= HalfPi THEN CosQ(Abs(t)) ELSE -CosQ(Pi - Abs(t))
Sin(t) == Cos(Normalize(t - HalfPi))

\* length times cos or sin, rounded to the nearest unit
Scale(len, c) == (len * c + 5000) \div 10000

\* int(v / map_resolution), lines 167-168 and 210-211: truncation towards zero
Trunc(v, d) == IF v >= 0 THEN v \div d ELSE -((-v) \div d)

GridCell(v) == Trunc(v, map_resolution) + map_center

\* lines 141-146: the distance travelled
Distance(vo_dist, cmd_v) ==
    IF Abs(vo_dist) > dist_floor
    THEN IF cmd_v # 0 THEN (vo_dist + cmd_v) \div 2 ELSE vo_dist
    ELSE cmd_v

DisplaceAlongOld(distance, theta_old, theta_new) ==
    <<Scale(distance, Cos(theta_old)), Scale(distance, Sin(theta_old))>>

\* lines 148-149: the step is taken along self.theta as it stands after the
\* heading update of lines 132-138
Displace(distance, theta_old, theta_new) ==
    <<Scale(distance, Cos(theta_new)), Scale(distance, Sin(theta_new))>>

\* the edge image of the resized frame, for the mapping step: no edge, or
\* one scanned column with its bottom-most edge row (the other columns have
\* none and contribute free rays only)
NoRay == [c |-> 0, obs_y |-> -1]
\* range(0, w, step), line 180
Columns == {c \in 0..(small_w - 1) : c % ray_step = 0}
Rays == {NoRay} \cup [c : Columns \cap {0, 80, 158}, obs_y : {66, 67, 119}]

StampDistanceNear(offset_y) == (K \div 10) \div offset_y

\* line 199: dist = K / offset_y
StampDistance(offset_y) == K \div offset_y

\* lines 189-216 for one column: the cell an obstacle stamp is centred on,
\* or no stamp
StampAt(ray, px, py, heading) ==
    LET horizon_y == small_h \div 2
        offset_y == ray.obs_y - horizon_y
        dist == IF ray.obs_y > horizon_y + horizon_margin
                THEN StampDistance(offset_y) ELSE max_range
        is_obstacle == ray.obs_y > horizon_y + horizon_margin /\ dist <= max_range
        ray_angle_global ==
            Normalize(heading + (ray.c - (small_w \div 2)) * ray_angle_step)
        gex == GridCell(px + Scale(dist, Cos(ray_angle_global)))
        gey == GridCell(py + Scale(dist, Sin(ray_angle_global)))
    IN  [stamped |-> /\ is_obstacle /\ dist < stamp_range
                     /\ 0 <= gex /\ gex < map_size /\ 0 <= gey /\ gey < map_size,
         ox |-> gex, oy |-> gey]

\* cv2.circle(grid_map, (ox, oy), 2, 0, -1), line 229: the cells of the filled
\* circle lie within the cells whose squared distance from the centre is at
\* most stamp_radius^2 + 1
StampCovers(ox, oy, cx, cy) ==
    (cx - ox) * (cx - ox) + (cy - oy) * (cy - oy)
        <= stamp_radius * stamp_radius + 1

\* update_map, lines 159-229, as far as the robot's own cell goes: outside
\* the grid nothing is drawn; otherwise fillPoly paints the polygon whose
\* first vertex is (rx, ry), boundary included, and then the stamps are drawn
update_map(ray, px, py, heading, old) ==
    LET rx == GridCell(px)
        ry == GridCell(py)
        st == StampAt(ray, px, py, heading)
    IN  IF ~(0 <= rx /\ rx < map_size /\ 0 <= ry /\ ry < map_size) THEN old
        ELSE IF st.stamped /\ StampCovers(st.ox, st.oy, rx, ry) THEN occupied
        ELSE free

\* process(frame, movement_cmd), lines 57-156, for the given sets of inputs;
\* trace says whether the history variable slamin keeps the inputs
SlamStep(txs, tys, cmds, rays, max_updates, trace) ==
    /\ updates < max_updates
    /\ \E has_frame \in BOOLEAN, img_tx \in txs, img_ty \in tys,
          movement_cmd \in cmds, ray \in rays :
         IF ~has_frame
         THEN /\ img_tx = 0 /\ img_ty = 0 /\ movement_cmd = AllStopped /\ ray = NoRay
              /\ UNCHANGED slamVars
         ELSE /\ (updates = 0 => (img_tx = 0 /\ img_ty = 0))
              /\ LET dtheta == -img_tx * yaw_scale
                     vo_dist == img_ty * trans_scale
                     cmd_v == IF movement_cmd.backward THEN -cmd_speed
                              ELSE IF movement_cmd.forward THEN cmd_speed
                              ELSE 0
                     cmd_w == IF movement_cmd.right THEN turn_rate
                              ELSE IF movement_cmd.left THEN -turn_rate
                              ELSE 0
                     delta == IF Abs(dtheta) > noise_floor THEN dtheta ELSE cmd_w
                     distance == Distance(vo_dist, cmd_v)
                     heading == Normalize(theta + delta)
                     d == Displace(distance, theta, heading)
                 IN  /\ distance # 0 => slamin.moves < MaxMoves
                     /\ theta' = heading
                     /\ net' = net + delta
                     /\ wrapped' = (wrapped \/ theta + delta > Pi \/ theta + delta < -Pi)
                     /\ self_x' = self_x + d[1]
                     /\ self_y' = self_y + d[2]
                     /\ cell' = update_map(ray, self_x + d[1], self_y + d[2],
                                           heading, cell)
                     /\ slamin' =
                          IF trace
                          THEN [called |-> TRUE, vo_dist |-> vo_dist,
                                cmd_v |-> cmd_v, dtheta |-> dtheta,
                                cmd_w |-> cmd_w, theta0 |-> theta,
                                x0 |-> self_x, y0 |-> self_y, ray |-> ray,
                                moves |-> IF distance # 0 THEN slamin.moves + 1
                                          ELSE slamin.moves]
                          ELSE [slamin EXCEPT
                                   !.called = TRUE,
                                   !.moves = IF distance # 0 THEN slamin.moves + 1
                                             ELSE slamin.moves]
              /\ updates' = updates + 1
    /\ UNCHANGED <<precision_mode, sensing, extVars, hazards, scanVars>>
    /\ UNCHANGED engineVars
    /\ UNCHANGED motionVars

\* the heading: turns seen and commanded, over many calls
SlamProcess ==
    SlamStep(TxTenths, {0}, SlamCommands, {NoRay}, MaxUpdates, FALSE)

SpecSlam == Init /\ [][SlamProcess]_vars

\* the pose and the map: a few calls with turns, steps seen and commanded,
\* and obstacles in view
PoseTx == {0, 4000}
PoseCommands ==
    {AllStopped, Command("FORWARD"), Command("BACKWARD"), Command("RIGHT")}

PoseProcess ==
    SlamStep(PoseTx, TyTenths, PoseCommands, Rays, MaxPoseUpdates, TRUE)

SpecPose == Init /\ [][PoseProcess]_vars

\* the mapping step alone, applied to poses around the origin: positions at
\* both edges and in the middle of a cell on either side of each axis, any
\* heading in steps of 15 degrees, an obstacle in any of seven columns at one
\* of the nearest rows; the robot stands still (no command, no visual motion)
PoseOffsets == {-990, -510, -490, -250, -10, 0, 10, 250, 490, 510, 990}
Headings == {Normalize(k * (Pi \div 12)) : k \in -12..11}
MapRays ==
    {NoRay} \cup [c : Columns \cap {0, 40, 60, 80, 100, 120, 158},
                  obs_y : {67, 110, 118, 119}]

InitMap ==
    /\ InitRest /\ sensing = "ok" /\ buffer = <<>>
    /\ self_x \in PoseOffsets /\ self_y \in PoseOffsets /\ theta \in Headings

MapProcess ==
    SlamStep({0}, {0}, {AllStopped}, MapRays, MaxMapUpdates, TRUE)

SpecMap == InitMap /\ [][MapProcess]_vars

-----------------------------------------------------------------------------
(* ObstacleDetector.process with precision guidance                        *)
(* (_compute_precision_guidance, obstacle_detection.py lines 243-370)      *)

\* frame width (ObstacleDetector.__init__, line 21) and the column step of
\* _scan_columns (line 132)
width == 640
scan_step == 5

\* rows above this are masked out of the pseudo-scan (line 263)
mask_limit_y == 420
\* half-width of the kernel a sparse point is spread over (lines 268-269)
kernel == 2
\* safety bubbles: obstacles below this row get one (line 283), of radius
\* bubble_base + bubble_slope_tenths/10 per row (line 287), marked with the
\* row bubble_mark (line 294)
bubble_start == 300
bubble_base == 30
bubble_slope_tenths == 2
bubble_mark == 480
PASSABLE_LIMIT_Y == 350
min_gap_columns == 20
commit_limit == 400
hysteresis_range == 50
hysteresis_bonus == 100
on_path_tolerance == 25

ON_PATH == "ALIGNMENT: ON PATH. GO FORWARD."
COMMIT == "ALIGNMENT: FGM SAYS COMMIT. GO FORWARD."
NO_PATH == "ALIGNMENT: BLOCKED. NO PATH."
PATH_LEFT == "ALIGNMENT: PATH LEFTSIDE. Turn LEFT."
PATH_RIGHT == "ALIGNMENT: PATH RIGHTSIDE. Turn RIGHT."

Max(S) == CHOOSE m \in S : \A n \in S : n <= m

\* what the camera sees: walls, each an edge at one row over the columns
\* lo..hi; no edge elsewhere
Wall(lo, hi, row) == [lo |-> lo, hi |-> hi, row |-> row]

Scenes ==
    { {},                                                \* open floor
      {Wall(0, 635, 470)},                               \* a wall at the bumper
      {Wall(0, 635, 410)},                               \* a near wall
      {Wall(0, 635, 350)},                               \* a wall further off
      {Wall(200, 200, 350), Wall(300, 300, 350)},        \* posts 20 free columns apart
      {Wall(200, 200, 350), Wall(300, 300, 345)},        \* 21 free columns
      {Wall(200, 200, 350), Wall(300, 300, 355)},        \* 19 free columns
      {Wall(0, 575, 350)},                               \* 25 free columns at the right border
      {Wall(0, 580, 350)},                               \* 20 free columns at the right border
      {Wall(300, 300, 400), Wall(340, 340, 450)},        \* a post, and a nearer one
      {Wall(0, 40, 400), Wall(200, 635, 400)},           \* a door on the left
      {Wall(0, 435, 400), Wall(595, 635, 400)},          \* a door on the right
      {Wall(0, 120, 400), Wall(280, 420, 400), Wall(580, 635, 400)} }  \* two doors

\* _scan_columns, lines 132-143: for every fifth column the lowest edge row,
\* 0 where the column has no edge
scan_columns(scene) ==
    [i \in 1..(width \div scan_step) |->
        LET col == (i - 1) * scan_step
        IN  <<col, Max({wl.row : wl \in {v \in scene : v.lo <= col /\ col <= v.hi}}
                       \cup {0})>>]

\* _get_chunk_average, lines 151-162: the mean of the two largest rows of the
\* chunk, here rounded up to a whole number.  Every use of a score is a test
\* "score > whole number", which the rounding leaves as it is.
get_chunk_average(chunk) ==
    IF chunk = <<>> THEN 0
    ELSE LET i1 == CHOOSE i \in DOMAIN chunk :
                       \A j \in DOMAIN chunk : chunk[j][2] <= chunk[i][2]
             rest == {chunk[j][2] : j \in DOMAIN chunk \ {i1}}
         IN  IF rest = {} THEN chunk[i1][2]
             ELSE (chunk[i1][2] + Max(rest) + 1) \div 2

\* process, lines 78-83: the three chunks and their scores
ChunkScores(edge_points) ==
    LET center_width == Len(edge_points) \div 6
        side_width == (Len(edge_points) - center_width) \div 2
    IN  [left |-> get_chunk_average(SubSeq(edge_points, 1, side_width)),
         fwd |-> get_chunk_average(
                   SubSeq(edge_points, side_width + 1, side_width + center_width)),
         right |-> get_chunk_average(
                   SubSeq(edge_points, side_width + center_width + 1,
                          Len(edge_points)))]

\* line 263-264: rows above the mask limit count as no obstacle
Masked(row) == IF row > mask_limit_y THEN 0 ELSE row

\* lines 257-270: the dense pseudo-scan.  The kernels of neighbouring points
\* do not overlap, so a column takes the masked row of the point whose kernel
\* holds it; the last columns lie in no kernel and keep 0.
PseudoScan(edge_points) ==
    [xx \in 0..(width - 1) |->
        LET i == ((xx + kernel) \div scan_step) + 1
        IN  IF i \in DOMAIN edge_points /\ xx <= edge_points[i][1] + kernel
            THEN Masked(edge_points[i][2]) ELSE 0]

\* line 287: int(30 + (y - 300) * 0.2); the product in double precision is
\* never below the exact fifth, so the truncation is the exact floor
Radius(row) ==
    bubble_base + ((row - bubble_start) * bubble_slope_tenths) \div 10

\* the bubble applied for an edge point found at a row: none for masked rows
\* and for rows up to bubble_start (lines 263, 283)
AppliedRadius(row) ==
    IF Masked(row) > bubble_start THEN Radius(Masked(row)) ELSE 0

\* lines 277-294: every close obstacle of a scanned column blocks the columns
\* within its radius
Inflate(scan) ==
    LET close == {c \in 0..(width - 1) : c % scan_step = 0 /\ scan[c] > bubble_start}
    IN  [xx \in 0..(width - 1) |->
            IF \E c \in close : c - Radius(scan[c]) <= xx /\ xx < c + Radius(scan[c])
            THEN Max({scan[xx], bubble_mark}) ELSE scan[xx]]

\* the maximal runs of passable columns, as <<first, last>>
Runs(inflated_scan) ==
    LET ok(xx) == inflated_scan[xx] < PASSABLE_LIMIT_Y
        firsts == {a \in 0..(width - 1) : ok(a) /\ (a = 0 \/ ~ok(a - 1))}
        lasts == {b \in 0..(width - 1) : ok(b) /\ (b = width - 1 \/ ~ok(b + 1))}
    IN  {<<a, CHOOSE b \in lasts : b >= a /\ \A b2 \in lasts : b2 >= a => b <= b2>> :
            a \in firsts}

RunLen(run) == run[2] - run[1] + 1

\* lines 303-314: the runs kept as gaps
FindGaps(inflated_scan) ==
    {run \in Runs(inflated_scan) : RunLen(run) > min_gap_columns}

\* the scene-dependent part of a call, evaluated once per scene
ScoresOf == [scene \in Scenes |-> ChunkScores(scan_columns(scene))]
RunsOf == [scene \in Scenes |-> Runs(Inflate(PseudoScan(scan_columns(scene))))]
GapsOf == [scene \in Scenes |->
              FindGaps(Inflate(PseudoScan(scan_columns(scene))))]

GapCenter(g) == (g[1] + g[2]) \div 2

\* gap_score, lines 325-337
gap_score(g, last) ==
    LET center == GapCenter(g)
        dist == Abs(center - image_center)
        bonus == IF last # NoCenter /\ Abs(center - last) < hysteresis_range
                 THEN hysteresis_bonus ELSE 0
    IN  RunLen(g) - dist + bonus

\* line 339: max() keeps the first of the best-scored gaps, the leftmost
BestGap(gaps, last) ==
    CHOOSE g \in gaps :
        \A o \in gaps : \/ gap_score(o, last) < gap_score(g, last)
                        \/ (gap_score(o, last) = gap_score(g, last) /\ g[1] <= o[1])

\* lines 316-370, given the gaps: the message, the chosen gap, its raw and its
\* smoothed centre, and the centre remembered afterwards
compute_precision_guidance(gaps, c_fwd, last) ==
    IF gaps = {}
    THEN [msg |-> IF c_fwd > commit_limit THEN COMMIT ELSE NO_PATH,
          best |-> NoSegment, raw |-> NoCenter, smoothed |-> NoCenter,
          last |-> last]
    ELSE LET best_gap == BestGap(gaps, last)
             raw_gap_center == GapCenter(best_gap)
             smoothed_center == SmoothedCenter(raw_gap_center, last)
             center_offset == smoothed_center - image_center
         IN  [msg |-> IF Abs(center_offset) < on_path_tolerance THEN ON_PATH
                      ELSE IF center_offset < 0 THEN PATH_LEFT ELSE PATH_RIGHT,
              best |-> best_gap, raw |-> raw_gap_center,
              smoothed |-> smoothed_center, last |-> smoothed_center]

\* one whole call of process(frame) by a single caller, lines 60-123
GuideProcess ==
    /\ fgm.calls < MaxGuideCalls
    /\ \E scene \in Scenes, total_edge_pixels \in EdgeCounts :
         LET c == ScoresOf[scene]
             is_blind == IsBlind(total_edge_pixels)
             instant_blocked == determine_blocked_directions(
                 c.left, c.fwd, c.right, is_blind, precision_mode, precision_mode)
             h == DequeAppend(block_history, instant_blocked)
             persistent_blocked == PersistentBlocked(h)
             safe_actions == SafeActions(persistent_blocked, is_blind)
             g == compute_precision_guidance(GapsOf[scene], c.fwd, last_gap_center)
         IN  /\ block_history' = h
             /\ latest_blockage' = Blockage(persistent_blocked)
             /\ clear_run' = IF "FORWARD" \in instant_blocked THEN 0
                             ELSE IF clear_run < history_len THEN clear_run + 1
                             ELSE clear_run
             /\ ret' = [kind |-> "frame", safe |-> safe_actions, overlay |-> TRUE,
                        edges |-> total_edge_pixels, guided |-> precision_mode,
                        has_metrics |-> TRUE]
             /\ IF precision_mode
                THEN /\ last_gap_center' = g.last
                     /\ fgm' = [calls |-> fgm.calls + 1, guided |-> TRUE,
                                scene |-> scene, c_fwd |-> c.fwd,
                                before |-> last_gap_center,
                                chosen_before |-> fgm.chosen,
                                gaps |-> GapsOf[scene], best |-> g.best,
                                raw |-> g.raw, smoothed |-> g.smoothed,
                                msg |-> g.msg,
                                chosen |-> IF g.raw = NoCenter THEN NoCenter
                                           ELSE g.raw]
                ELSE /\ UNCHANGED last_gap_center
                     /\ fgm' = [fgm EXCEPT !.calls = fgm.calls + 1,
                                           !.guided = FALSE, !.scene = scene,
                                           !.c_fwd = c.fwd, !.msg = ""]
    /\ UNCHANGED <<call, seen, precision_mode, sensing, wheels, thr, hlock,
                   scanVars, slamVars, hazards>>
    /\ UNCHANGED motionVars

NextGuide == GuideProcess \/ TogglePrecision

SpecGuide == Init /\ [][NextGuide]_vars

-----------------------------------------------------------------------------
(* The movement loop (movement.py) beside a primitive and the emergency    *)
(* stop                                                                    *)

\* execute_movement, movement.py lines 20-29: the wheel action for a command
WheelAction(m) ==
    IF m.forward THEN "up"
    ELSE IF m.backward THEN "down"
    ELSE IF m.left THEN "left"
    ELSE IF m.right THEN "right"
    ELSE "stop"

\* movement_loop, lines 41-53, one iteration with a controller attached:
\* get_movement() copies the command under the lock (state.py lines 38-41),
\* execute_movement() acts on the copy
MovementLoop ==
    /\ lock = "free"
    /\ wheels' = [action |-> WheelAction(movement), turn |-> 1 - wheels.turn]
    /\ UNCHANGED <<precision_mode, sensing, thr, hlock, fgm, scanVars, slamVars,
                   hazards>>
    /\ UNCHANGED engineVars
    /\ UNCHANGED motionVars

\* a primitive, the emergency-stop route, the AI switch and the movement loop
NextStop ==
    \/ StartPrimitive \/ PrimLoop \/ PrimBrake \/ PrimSafety \/ PrimSafetyRaises
    \/ PrimVerdict \/ PrimSleep \/ PrimExit
    \/ ProcDecide \/ ProcFinish
    \/ AiStart
    \/ EmergencyStopFlag \/ EmergencyStopAcquire \/ EmergencyStopClear
    \/ Capture
    \/ MovementLoop

SpecStop == Init /\ [][NextStop]_vars

-----------------------------------------------------------------------------
(* ObstacleDetector.process called by several threads on one detector:     *)
(* _update_safety_state and its lock (obstacle_detection.py lines 192-241) *)

\* process lines 63-87: the thread's own frame and its instantaneous blocked
\* set, before the lock is asked for
ThrBegin(t) ==
    /\ thr[t].pc \in {"idle", "done"}
    /\ \E f \in CameraFrames :
         /\ ClearFrame(f) \/ hazards < MaxHazardFrames
         /\ hazards' = IF ClearFrame(f) THEN hazards ELSE hazards + 1
         /\ thr' = [thr EXCEPT ![t] =
                [IdleThread EXCEPT
                    !.pc = "wait",
                    !.is_blind = IsBlind(f.edges),
                    !.instant_blocked = determine_blocked_directions(
                        f.c_left, f.c_fwd, f.c_right, IsBlind(f.edges),
                        precision_mode, precision_mode)]]
    /\ UNCHANGED hlock
    /\ UNCHANGED engineVars
    /\ UNCHANGED <<precision_mode, sensing, wheels, fgm, scanVars, slamVars,
                   runs>>
    /\ UNCHANGED motionVars

ThrAcquireUnlocked(t) ==
    /\ thr[t].pc = "wait"
    /\ hlock' = t
    /\ thr' = [thr EXCEPT ![t].pc = "locked"]
    /\ UNCHANGED hazards
    /\ UNCHANGED engineVars
    /\ UNCHANGED <<precision_mode, sensing, wheels, fgm, scanVars, slamVars,
                   runs>>
    /\ UNCHANGED motionVars

\* line 197: "with self.lock" waits until the lock is free and takes it
ThrAcquire(t) ==
    /\ thr[t].pc = "wait"
    /\ hlock = "free"
    /\ hlock' = t
    /\ thr' = [thr EXCEPT ![t].pc = "locked"]
    /\ UNCHANGED hazards
    /\ UNCHANGED engineVars
    /\ UNCHANGED <<precision_mode, sensing, wheels, fgm, scanVars, slamVars,
                   runs>>
    /\ UNCHANGED motionVars

\* line 198: block_history.append(instant_blocked)
ThrAppend(t) ==
    /\ thr[t].pc = "locked"
    /\ block_history' = DequeAppend(block_history, thr[t].instant_blocked)
    /\ clear_run' = IF "FORWARD" \in thr[t].instant_blocked THEN 0
                    ELSE IF clear_run < history_len THEN clear_run + 1
                    ELSE clear_run
    /\ thr' = [thr EXCEPT ![t].pc = "appended"]
    /\ UNCHANGED <<latest_blockage, call, ret, seen, last_gap_center, hlock,
                   hazards>>
    /\ UNCHANGED <<precision_mode, sensing, wheels, fgm, scanVars, slamVars,
                   runs>>
    /\ UNCHANGED motionVars

\* lines 201-203: the union over the window, into the local persistent_blocked
ThrUnion(t) ==
    /\ thr[t].pc = "appended"
    /\ thr' = [thr EXCEPT ![t].pc = "joined",
                          ![t].persistent_blocked = PersistentBlocked(block_history),
                          ![t].window = block_history]
    /\ UNCHANGED <<hlock, hazards>>
    /\ UNCHANGED engineVars
    /\ UNCHANGED <<precision_mode, sensing, wheels, fgm, scanVars, slamVars,
                   runs>>
    /\ UNCHANGED motionVars

\* lines 206-210: latest_blockage is replaced, and the with-block ends
ThrPublish(t) ==
    /\ thr[t].pc = "joined"
    /\ latest_blockage' = Blockage(thr[t].persistent_blocked)
    /\ hlock' = "free"
    /\ thr' = [thr EXCEPT ![t].pc = "after"]
    /\ UNCHANGED <<block_history, call, ret, clear_run, seen, last_gap_center,
                   hazards>>
    /\ UNCHANGED <<precision_mode, sensing, wheels, fgm, scanVars, slamVars,
                   runs>>
    /\ UNCHANGED motionVars

\* lines 212-241 and process lines 92-123 (precision mode off): the permitted
\* list is built from the local persistent_blocked and returned
ThrReturn(t) ==
    /\ thr[t].pc = "after"
    /\ thr' = [thr EXCEPT ![t].pc = "done",
                          ![t].safe_actions =
                              SafeActions(thr[t].persistent_blocked, thr[t].is_blind)]
    /\ UNCHANGED <<hlock, hazards>>
    /\ UNCHANGED engineVars
    /\ UNCHANGED <<precision_mode, sensing, wheels, fgm, scanVars, slamVars,
                   runs>>
    /\ UNCHANGED motionVars

NextThreads ==
    \E t \in Threads :
        \/ ThrBegin(t) \/ ThrAcquire(t) \/ ThrAppend(t) \/ ThrUnion(t)
        \/ ThrPublish(t) \/ ThrReturn(t)

SpecThreads == Init /\ [][NextThreads]_vars

-----------------------------------------------------------------------------
(* Properties of the Safety Reflex Engine, checked under SpecEngine *)

AllDirections == {"FORWARD", "BACKWARD", "LEFT", "RIGHT"}

\* the permitted list process() is about to return, or has returned
Decided == call.pc = "guide"

\* C1: for every non-null frame whose edge-pixel count is below
\* min_edge_pixels, the permitted list process() computes and returns does not
\* contain FORWARD, in every mode and with any history.
C1_BlindExcludesForward ==
    /\ (Decided /\ call.frame.edges < min_edge_pixels)
          => "FORWARD" \notin Elems(call.safe)
    /\ (ret.kind = "frame" /\ ret.edges < min_edge_pixels)
          => "FORWARD" \notin Elems(ret.safe)

C1_Witness ==
    /\ ret.kind = "frame"
    /\ ret.edges < min_edge_pixels
    /\ ret.safe = <<"BACKWARD">>
    /\ call.pc = "idle"
    /\ call.frame.c_fwd <= obstacle_threshold_y
    /\ call.pm_thr /\ call.pm_branch

\* C4: after a frame that instantaneously blocks FORWARD, FORWARD stays
\* persistently blocked (and out of the permitted list) through the next
\* history_len - 1 consecutive clear frames and is unblocked at the
\* history_len-th; a direction leaves the persistent set only when the entry
\* that held it is pushed out of the full window.
C4_HeldForWindow ==
    /\ [](IF clear_run < history_len
          THEN /\ latest_blockage.forward
               /\ (Decided => "FORWARD" \notin Elems(call.safe))
          ELSE /\ ~latest_blockage.forward
               /\ (Decided => "FORWARD" \in Elems(call.safe)))
    /\ [][\A d \in Directions :
             ((\E i \in 1..Len(block_history) : d \in block_history[i])
              /\ ~(\E i \in 1..Len(block_history') : d \in block_history'[i]))
             => (Len(block_history) = history_len /\ d \in block_history[1])]_vars

C4_Witness ==
    /\ clear_run = history_len - 1
    /\ Len(block_history) = history_len
    /\ "FORWARD" \in block_history[1]
    /\ latest_blockage.forward
    /\ Decided
    /\ call.safe = <<"BACKWARD", "LEFT", "RIGHT">>

\* C10 as claimed: for every non-null frame the permitted list is the four
\* directions minus the union of the history window.
C10_PermittedIsComplement ==
    Decided =>
        \A d \in AllDirections :
            d \in Elems(call.safe)
                <=> ~(\E i \in 1..Len(block_history) : d \in block_history[i])

\* C10, amended: for every non-null frame that is not blind the permitted list
\* is the four directions minus the union of the history window; for a blind
\* frame it is BACKWARD alone.
C10_PermittedIsComplementUnlessBlind ==
    Decided =>
        IF call.frame.edges < min_edge_pixels
        THEN call.safe = <<"BACKWARD">>
        ELSE \A d \in AllDirections :
                d \in Elems(call.safe)
                    <=> ~(\E i \in 1..Len(block_history) : d \in block_history[i])

C10_Witness ==
    /\ Decided
    /\ call.frame.edges >= min_edge_pixels
    /\ Len(block_history) >= 2
    /\ block_history[Len(block_history)] = {}
    /\ \E i \in 1..Len(block_history) : block_history[i] = {"FORWARD", "RIGHT"}
    /\ call.safe = <<"BACKWARD", "LEFT">>

\* C11: BACKWARD is in the permitted list of every process() call on a
\* non-null frame, in every mode and after any sequence of frames, also for a
\* blind frame and when FORWARD, LEFT and RIGHT are all persistently blocked.
C11_BackwardAlwaysPermitted ==
    /\ Decided => (\E i \in 1..Len(call.safe) : call.safe[i] = "BACKWARD")
    /\ ret.kind = "frame" => (\E i \in 1..Len(ret.safe) : ret.safe[i] = "BACKWARD")

C11_Witness ==
    /\ Decided
    /\ call.frame.edges >= min_edge_pixels
    /\ latest_blockage = [forward |-> TRUE, left |-> TRUE, right |-> TRUE]
    /\ call.safe = <<"BACKWARD">>

\* C12: process(None) returns no overlay, an empty metrics map and a
\* permitted list without FORWARD, and leaves the safety history,
\* latest_blockage and last_gap_center as they were.
C12_NullFrameIsInert ==
    /\ [](ret.kind = "null"
            => (/\ ~ret.overlay
                /\ ~ret.has_metrics
                /\ \A i \in 1..Len(ret.safe) : ret.safe[i] # "FORWARD"))
    /\ [][(call.pc = "idle" /\ call'.pc = "idle" /\ ret'.kind = "null"
            /\ precision_mode' = precision_mode)
           => (/\ block_history' = block_history
               /\ latest_blockage' = latest_blockage
               /\ last_gap_center' = last_gap_center)]_vars

C12_Witness ==
    /\ ret.kind = "null"
    /\ ret.safe = <<"STOP">>
    /\ Len(block_history) >= 2
    /\ latest_blockage.forward
    /\ last_gap_center # NoCenter

\* C9: one process() call uses one value of precision_mode for the threshold
\* adjustment, the choice of branch and the decision to run guidance.
C9_SingleSnapshot ==
    /\ Decided => call.pm_thr = call.pm_branch
    /\ (call.pc = "idle" /\ call.caller # "none")
          => (call.pm_thr = call.pm_branch /\ call.pm_branch = call.pm_guid)

-----------------------------------------------------------------------------
(* Properties of the motion primitives, checked under Spec *)

\* C2: a primitive whose tick check finds ai_enabled false stops there: its
\* next steps set the MovementCommand to all-false and return False from the
\* polling loop, with no further tick slept.
C2_StopAtTickCheck ==
    [][/\ (prim.pc = "loop" /\ prim.elapsed < prim.duration /\ ~ai_enabled
             /\ prim' # prim)
            => prim'.pc = "brake"
       /\ (prim.pc = "brake" /\ prim' # prim)
            => /\ movement' = AllStopped
               /\ prim'.pc = "exit"
               /\ ~prim'.completed
               /\ prim'.elapsed = prim.elapsed
       /\ (prim.pc = "exit" /\ ~prim.completed /\ prim' # prim)
            => /\ movement' = AllStopped
               /\ prim'.result = "interrupted"]_vars

C2_Witness ==
    /\ prim.pc = "idle"
    /\ prim.result = "interrupted"
    /\ prim.kind = "LEFT"
    /\ prim.elapsed > 0
    /\ prim.elapsed < prim.duration
    /\ stop_seen
    /\ ~ai_enabled
    /\ movement = AllStopped

C13_RaisedQueryIsDropped ==
    /\ [][(/\ prim.kind = "FORWARD"
            /\ \/ (prim.pc = "safety" /\ sensing = "ok" /\ latest_frame # NullFrame
                    /\ prim'.pc \notin {"safety", "query"})
               \/ (prim.pc = "query" /\ prim'.pc \notin {"query", "verdict"}))
           => (/\ prim'.pc = "sleep"
               /\ prim'.elapsed = prim.elapsed
               /\ movement' = movement
               /\ block_history' = block_history
               /\ latest_blockage' = latest_blockage)]_vars
    /\ [][(prim.pc = "sleep" /\ prim' # prim)
           => (/\ prim'.pc = "loop"
               /\ prim'.elapsed = prim.elapsed + check_interval)]_vars

C13_Witness ==
    /\ prim.pc = "loop"
    /\ prim.kind = "FORWARD"
    /\ prim.elapsed = check_interval
    /\ movement = Command("FORWARD")
    /\ ret = NoReturn
    /\ call.caller = "prim"
    /\ call.pc = "idle"
    /\ latest_blockage.forward

\* C14: a primitive of duration D that is never stopped and, when forward,
\* is permitted FORWARD at every tick, returns completed after exactly
\* ceil(D / check_interval) ticks, with the MovementCommand all-false.
C14_CompletesAfterCeilTicks ==
    (prim.pc = "idle" /\ prim.result = "completed")
        => /\ prim.elapsed \div check_interval
                = (prim.duration + check_interval - 1) \div check_interval
           /\ movement = AllStopped

\* C5: once ai_enabled has become false while a primitive was polling, that
\* primitive does not return the completed result.
C5_NoCompletionAfterStop ==
    (prim.pc = "idle" /\ stop_seen) => prim.result # "completed"

\* C6: when the frame source returns None, or no detector or robot system is
\* set, at the safety re-check of a forward primitive, the primitive halts
\* with the MovementCommand cleared.
C6_UnavailableSensingHalts ==
    [][(prim.pc = "safety" /\ (sensing # "ok" \/ latest_frame = NullFrame)
          /\ prim' # prim)
        => (prim'.pc = "exit" /\ movement' = AllStopped)]_vars

\* C7: the safety history holds one entry per distinct frame process() was
\* run on, however often the same frame is queried.
C7_OneEntryPerFrame ==
    Len(block_history) = Cardinality(seen)

\* C8: every write of the MovementCommand and of ai_enabled happens while
\* the writer holds the shared-state lock.
C8_WritesHoldLock ==
    [][(movement' # movement \/ ai_enabled' # ai_enabled) => lock # "free"]_vars

-----------------------------------------------------------------------------
(* Properties of LidarScanner.analyze_gap, checked under SpecScan *)

\* analyze_gap() has been called on the buffer as it stands
Analyzed == gap.reason # "not_called"

\* 15 times the spread between the 80th and the 20th percentile of the
\* smoothed distances of a buffer
Spread15(buf) ==
    LET data == SortedByAngle(buf)
        sm == Smooth3([i \in 1..Len(data) |-> data[i].dist])
    IN  Percentile5(sm, 80) - Percentile5(sm, 20)

\* C15: with fewer than min_samples samples analyze_gap returns found=false,
\* insufficient_data, and with min_samples or more it goes on; then, if the
\* spread of the smoothed distances is below min_contrast, it returns
\* found=false, no_depth_contrast, and with a spread of min_contrast or more
\* it goes on.
C15_RejectsFewOrFlat ==
    Analyzed =>
        IF Len(buffer) < min_samples
        THEN ~gap.found /\ gap.reason = "insufficient_data"
        ELSE IF Spread15(buffer) < 15 * min_contrast
        THEN ~gap.found /\ gap.reason = "no_depth_contrast"
        ELSE gap.reason \notin {"insufficient_data", "no_depth_contrast"}

C15_Witness ==
    /\ Analyzed
    /\ Len(buffer) = min_samples
    /\ Spread15(buffer) = 15 * min_contrast
    /\ gap.found

\* C16: whenever analyze_gap returns found=false, the reason is one of
\* insufficient_data, no_depth_contrast, no_gap_segments and gap_too_narrow,
\* whatever the buffer holds.
C16_ReasonIsOneOfFour ==
    (Analyzed /\ ~gap.found)
        => gap.reason \in {"insufficient_data", "no_depth_contrast",
                           "no_gap_segments", "gap_too_narrow"}

\* the largest angular span of a run of consecutive gap samples of a buffer
\* that passed the sample-count and contrast checks
WidestSpan(buf) ==
    LET data == SortedByAngle(buf)
        sm == Smooth3([i \in 1..Len(data) |-> data[i].dist])
        thr30 == Percentile5(sm, 20) + Percentile5(sm, 80)
        spans == {data[j].angle - data[i].angle : <<i, j>> \in
                    {r \in (1..Len(data)) \X (1..Len(data)) :
                        /\ r[1] <= r[2]
                        /\ \A k \in r[1]..r[2] : 10 * sm[k] > thr30}}
    IN  IF spans = {} THEN -1
        ELSE CHOOSE w \in spans : \A v \in spans : v <= w

\* C17: of several gap segments analyze_gap reports the one of the largest
\* angular span; for the angles 0..40 with openings over 10..30 and over
\* 35..38 it returns center_angle = 20 and width_deg = 20.
C17_ReportsWidestSegment ==
    /\ (Analyzed /\ gap.found)
          => /\ gap.width_deg = WidestSpan(buffer)
             /\ gap.right_edge_angle - gap.left_edge_angle = gap.width_deg
    /\ (Analyzed /\ \E near \in {90, 100}, far \in {200, 240, 300} :
                        buffer = Profile(10, 30, 35, 38, near, far))
          => /\ gap.found
             /\ gap.center_angle2 = 2 * 20
             /\ gap.width_deg = 20

C17_Witness ==
    /\ Analyzed
    /\ buffer = Profile(10, 30, 35, 38, 100, 300)
    /\ gap.found
    /\ gap.left_edge_angle = 10
    /\ gap.right_edge_angle = 30
    /\ gap.center_angle2 = 40

\* C18: found=true is returned only if the widest gap segment spans at least
\* min_gap_width degrees, and a narrower widest segment gives found=false,
\* gap_too_narrow; on found=true width_deg is right edge minus left edge, at
\* least min_gap_width, and the centre is the midpoint of the two edges.
C18_FoundIffWideEnough ==
    (Analyzed /\ gap.reason \notin {"insufficient_data", "no_depth_contrast"})
        => IF WidestSpan(buffer) >= min_gap_width
           THEN /\ gap.found
                /\ gap.width_deg = gap.right_edge_angle - gap.left_edge_angle
                /\ gap.width_deg >= min_gap_width
                /\ gap.center_angle2 = gap.left_edge_angle + gap.right_edge_angle
           ELSE IF WidestSpan(buffer) >= 0
           THEN ~gap.found /\ gap.reason = "gap_too_narrow"
           ELSE ~gap.found

-----------------------------------------------------------------------------
(* Properties of the SimpleSLAM heading, checked under SpecSlam *)

\* pi in units of 10^-8 rad, rounded down: 3.14159265
PiE8 == 314159265

\* C19: after any sequence of process() updates, visual or commanded, theta
\* lies in the half-open interval (-pi, pi].
C19_HeadingInHalfOpenTurn ==
    /\ -PiE8 < 100 * theta
    /\ 100 * theta <= PiE8

C19_Witness ==
    /\ wrapped
    /\ -HalfPi + net < -Pi
    /\ theta > 0
    /\ theta = -HalfPi + net + TwoPi

\* C20: a sequence of updates whose integrated heading deltas sum to zero
\* leaves theta at its starting value, also when the heading crossed the
\* +pi/-pi seam on the way.
C20_ZeroNetRotationReturns ==
    net = 0 => theta = -HalfPi

C20_Witness ==
    /\ net = 0
    /\ wrapped
    /\ updates = MaxUpdates
    /\ theta = -HalfPi

\* C23: for a non-blind frame the instantaneous blocked set holds FORWARD iff
\* the centre score exceeds 420 (460 in precision mode), LEFT iff the left
\* score exceeds 470 and RIGHT iff the right score exceeds 470, in standard
\* and in precision mode alike.
C23_ThresholdsByMode ==
    (call.pc = "guide" /\ ~IsBlind(call.frame.edges) /\ call.pm_thr = call.pm_branch)
        => LET instant_blocked == block_history[Len(block_history)]
               near == IF call.pm_thr THEN precision_forward_limit
                       ELSE obstacle_threshold_y
               side == obstacle_threshold_y + side_margin
           IN  /\ "FORWARD" \in instant_blocked <=> call.frame.c_fwd > near
               /\ "LEFT" \in instant_blocked <=> call.frame.c_left > side
               /\ "RIGHT" \in instant_blocked <=> call.frame.c_right > side

-----------------------------------------------------------------------------
(* Properties of the movement loop and emergency stop, checked under SpecStop *)

\* C25: while ai_enabled is false no primitive writes a MovementCommand with
\* a direction flag set, and the movement loop reads no moving command while
\* the emergency-stop handler has finished and ai_enabled is still false.
C25_NoMotionWhileDisabled ==
    [][/\ (~ai_enabled /\ prim' # prim /\ movement' # movement)
            => movement' = AllStopped
       /\ (~ai_enabled /\ ctl = "idle" /\ wheels'.turn # wheels.turn)
            => wheels'.action = "stop"]_vars

-----------------------------------------------------------------------------
(* Properties of concurrent process() calls, checked under SpecThreads *)

\* C24: under any interleaving of process() calls of several threads the
\* history never holds more than history_len entries; whenever the history
\* lock is free latest_blockage is the union of the sets in the window; and
\* the permitted list a call returns is the one built from the union taken
\* in that call's own critical section.
C24_WindowAndBlockageConsistent ==
    /\ Len(block_history) <= history_len
    /\ hlock = "free" => latest_blockage = Blockage(PersistentBlocked(block_history))
    /\ \A t \in Threads :
         thr[t].pc = "done" =>
             thr[t].safe_actions =
                 SafeActions(PersistentBlocked(thr[t].window), thr[t].is_blind)

\* the window is full and has dropped an entry, one thread holds the lock
\* with its entry appended and latest_blockage not yet replaced, and the
\* other has returned a list built from a window that has changed since
C24_Witness ==
    /\ Len(block_history) = history_len
    /\ clear_run = 0
    /\ \E t \in Threads, u \in Threads :
         /\ thr[t].pc = "done" /\ thr[t].window # block_history
         /\ Len(thr[t].window) = history_len
         /\ "FORWARD" \in Elems(thr[t].safe_actions)
         /\ hlock = u /\ thr[u].pc = "appended"
         /\ latest_blockage # Blockage(PersistentBlocked(block_history))

-----------------------------------------------------------------------------
(* Properties of precision guidance, checked under SpecGuide *)

\* the rows the column scan found an edge at, in the frame of the last call
ScannedRows ==
    {scan_columns(fgm.scene)[i][2] : i \in 1..(width \div scan_step)} \ {0}

\* the largest row of a frame of the default height 480 (line 21), and the
\* first row that gets a bubble
bottom_row == 479
first_bubble_row == bubble_start + 1

\* C22: the exclusion radius is monotone in proximity: of two obstacle rows
\* the column scan found, the nearer (larger) one is inflated by at least the
\* radius of the other, and an obstacle at the bottom row gets a strictly
\* larger radius than one at the first blocking row.
C22_RadiusMonotoneInProximity ==
    fgm.guided =>
        /\ \A y1 \in ScannedRows, y2 \in ScannedRows :
               y1 < y2 => AppliedRadius(y2) >= AppliedRadius(y1)
        /\ AppliedRadius(bottom_row) > AppliedRadius(first_bubble_row)

\* C26: in precision mode, when the guidance of a call says go forward (ON
\* PATH or FGM COMMIT), FORWARD is in the permitted list of the same call.
C26_GoForwardOnlyIfPermitted ==
    (fgm.guided /\ fgm.msg \in {ON_PATH, COMMIT}) => "FORWARD" \in Elems(ret.safe)

\* C27: the candidate gaps are exactly the maximal passable runs of 20 or
\* more columns; shorter runs are dropped, also at the right border.
C27_GapsAreRunsOfTwentyOrMore ==
    fgm.guided =>
        fgm.gaps = {run \in RunsOf[fgm.scene] : RunLen(run) >= min_gap_columns}

\* the score as the claim C28 states it: the bonus goes to the gaps whose
\* centre is within 50 columns of the centre of the gap selected on the
\* previous precision-mode call
StatedScore(g) ==
    RunLen(g) - Abs(GapCenter(g) - image_center)
      + (IF fgm.chosen_before # NoCenter
            /\ Abs(GapCenter(g) - fgm.chosen_before) <= hysteresis_range
         THEN hysteresis_bonus ELSE 0)

\* C28: the chosen gap maximises width - |centre - image centre| + bonus,
\* the bonus granted exactly to the gaps near the previously selected gap's
\* centre, and to none on the first call.
C28_ChosenGapMaximisesStatedScore ==
    (fgm.guided /\ fgm.gaps # {}) =>
        \A g \in fgm.gaps : StatedScore(g) <= StatedScore(fgm.best)

\* C29: the emitted centre equals the chosen centre on the first call and
\* otherwise lies between the previous emitted centre and the chosen centre;
\* guidance is ON PATH when the emitted centre is within 25 columns of the
\* image centre, else left or right by its side; a call that finds no gap
\* leaves the remembered centre as it was.
C29_SmoothedBetweenPreviousAndChosen ==
    fgm.guided =>
        IF fgm.raw = NoCenter
        THEN last_gap_center = fgm.before
        ELSE /\ last_gap_center = fgm.smoothed
             /\ IF fgm.before = NoCenter
                THEN fgm.smoothed = fgm.raw
                ELSE \/ (fgm.before <= fgm.smoothed /\ fgm.smoothed <= fgm.raw)
                     \/ (fgm.raw <= fgm.smoothed /\ fgm.smoothed <= fgm.before)
             /\ (Abs(fgm.smoothed - image_center) < on_path_tolerance
                    => fgm.msg = ON_PATH)
             /\ (fgm.msg = ON_PATH
                    => Abs(fgm.smoothed - image_center) <= on_path_tolerance)
             /\ (fgm.msg # ON_PATH
                    => fgm.msg = IF fgm.smoothed < image_center THEN PATH_LEFT
                                 ELSE PATH_RIGHT)

-----------------------------------------------------------------------------
(* Properties of the SLAM pose and map update, checked under SpecPose and  *)
(* SpecMap                                                                 *)

\* the robot's cell is a cell of the grid
OnMap ==
    /\ 0 <= GridCell(self_x) /\ GridCell(self_x) < map_size
    /\ 0 <= GridCell(self_y) /\ GridCell(self_y) < map_size

C30_PoseUpdateRule ==
    slamin.called =>
        LET delta == IF Abs(slamin.dtheta) > noise_floor THEN slamin.dtheta
                     ELSE slamin.cmd_w
            visual == Abs(slamin.vo_dist) > dist_floor
            distance == IF visual /\ slamin.cmd_v # 0
                        THEN (slamin.vo_dist + slamin.cmd_v) \div 2
                        ELSE IF visual THEN slamin.vo_dist
                        ELSE slamin.cmd_v
        IN  /\ theta = Normalize(slamin.theta0 + delta)
            /\ self_x = slamin.x0 + Scale(distance, Cos(theta))
            /\ self_y = slamin.y0 + Scale(distance, Sin(theta))

\* a call that saw both a turn and a step while a step was commanded: the
\* heading changed by the visual turn and the position moved by the mean
\* distance along the new heading
C30_Witness ==
    /\ slamin.called
    /\ Abs(slamin.dtheta) > noise_floor
    /\ Abs(slamin.vo_dist) > dist_floor /\ slamin.cmd_v # 0
    /\ theta # slamin.theta0
    /\ self_x # slamin.x0 /\ self_y # slamin.y0
    /\ Scale(cmd_speed, Cos(theta)) # Scale(cmd_speed, Cos(slamin.theta0))

=============================================================================
